---- MODULE Spec2Model ----
(***************************************************************************)
(* Model of build.py, the blog build script: title/date extraction, image  *)
(* reference scanning, Obsidian-embed normalisation, the document          *)
(* processor, the asset organizer and the blog.js metadata publisher.      *)
(*                                                                         *)
(* A Python str is a sequence of one-character strings, so that slicing,   *)
(* prefix tests and the regular expressions of the source are computed     *)
(* character by character.  Python's None is the one-element sequence      *)
(* <<"None">>, which no str can equal (its element is not one character).  *)
(* A character that a TLA+ string cannot hold (a control character other   *)
(* than \t \n \f \r, the backtick, a character above 126) is the string     *)
(* "chr(n)" of its code point n; the characters are those of the code      *)
(* points 0 to 255.  An exception that ends a function is the one-element  *)
(* sequence of its name, <<"re.error">> or <<"IndexError">>.               *)
(***************************************************************************)
EXTENDS Integers, Sequences, FiniteSets, TLC

VARIABLES
    blogs,            \* BLOGS_DIR             : file name -> file content
    source_assets,    \* BLOGS_DIR/assets      : [exists, walk], walk as os.walk lists it
    docs_blogs,       \* DOCS_BLOGS_DIR/*.md   : file name -> file content
    docs_assets,      \* DOCS_ASSETS_DIR       : [exists, dirs, files], files by path
    blog_js,          \* DOCS_JS_DIR/blog.js   : None (no file), or the file's text
    posts_metadata,   \* the list process_markdown_files returned
    pc,               \* position of the caller between the build's steps
    runs,             \* runs of organize_assets on posts_metadata, of update_blog_js on blog_js
    orig,             \* docs_assets and blog_js as they were before any run
    arg,              \* argument(s) of the pure function under check
    ret               \* its return value

vars == <<blogs, source_assets, docs_blogs, docs_assets, blog_js,
          posts_metadata, pc, runs, orig, arg, ret>>

None == <<"None">>

----------------------------------------------------------------------------
(* Python str primitives                                                   *)

\* the printable ASCII characters in code order: 32 (space) to 95, and 97
\* ("a") to 126
AsciiLow ==
    <<" ", "!", "\"", "#", "$", "%", "&", "'", "(", ")", "*", "+", ",",
      "-", ".", "/", "0", "1", "2", "3", "4", "5", "6", "7", "8", "9",
      ":", ";", "<", "=", ">", "?", "@", "A", "B", "C", "D", "E", "F",
      "G", "H", "I", "J", "K", "L", "M", "N", "O", "P", "Q", "R", "S",
      "T", "U", "V", "W", "X", "Y", "Z", "[", "\\", "]", "^", "_">>

AsciiHigh ==
    <<"a", "b", "c", "d", "e", "f", "g", "h", "i", "j", "k", "l", "m",
      "n", "o", "p", "q", "r", "s", "t", "u", "v", "w", "x", "y", "z",
      "{", "|", "}", "~">>

\* chr(n), 0 <= n <= 255
Chr(n) ==
    CASE n = 9  -> "\t"
      [] n = 10 -> "\n"
      [] n = 12 -> "\f"
      [] n = 13 -> "\r"
      [] n \in 32..95  -> AsciiLow[n - 31]
      [] n \in 97..126 -> AsciiHigh[n - 96]
      [] OTHER -> "chr(" \o ToString(n) \o ")"

\* ord(c)
Code(c) ==
    CASE c = "\t" -> 9
      [] c = "\n" -> 10
      [] c = "\f" -> 12
      [] c = "\r" -> 13
      [] \E i \in 1..Len(AsciiLow) : AsciiLow[i] = c ->
            31 + (CHOOSE i \in 1..Len(AsciiLow) : AsciiLow[i] = c)
      [] \E i \in 1..Len(AsciiHigh) : AsciiHigh[i] = c ->
            96 + (CHOOSE i \in 1..Len(AsciiHigh) : AsciiHigh[i] = c)
      [] OTHER -> CHOOSE n \in 0..255 : Chr(n) = c

\* str.isspace(), which str.strip() and int() strip and \s of re matches,
\* on the characters up to 255
Whitespace ==
    {" ", "\t", "\n", "\r", "\f"}
        \cup {Chr(n) : n \in {11, 28, 29, 30, 31, 133, 160}}

\* min(S), max(S)
MinOf(S) == CHOOSE x \in S : \A y \in S : x <= y
MaxOf(S) == CHOOSE x \in S : \A y \in S : x >= y

\* \d of re: the decimal digits, which up to chr(255) are 0 to 9
Digit == {"0", "1", "2", "3", "4", "5", "6", "7", "8", "9"}

\* s.startswith(p, i-1): p occurs in s at (1-based) index i.
StartsWithAt(s, i, p) ==
    /\ i >= 1
    /\ i + Len(p) - 1 <= Len(s)
    /\ SubSeq(s, i, i + Len(p) - 1) = p

\* s.find of a character class: least index >= i whose character is in
\* chars, Len(s)+1 when there is none.
RECURSIVE FindIn(_, _, _)
FindIn(s, i, chars) ==
    IF i > Len(s) THEN Len(s) + 1
    ELSE IF s[i] \in chars THEN i
    ELSE FindIn(s, i + 1, chars)

\* least index >= i whose character is NOT in chars, Len(s)+1 when none.
RECURSIVE SkipIn(_, _, _)
SkipIn(s, i, chars) ==
    IF i > Len(s) THEN Len(s) + 1
    ELSE IF s[i] \notin chars THEN i
    ELSE SkipIn(s, i + 1, chars)

\* greatest index <= i whose character is NOT in chars, 0 when none.
RECURSIVE SkipBack(_, _, _)
SkipBack(s, i, chars) ==
    IF i < 1 THEN 0
    ELSE IF s[i] \notin chars THEN i
    ELSE SkipBack(s, i - 1, chars)

\* s.lstrip(chars)
lstrip(s, chars) == SubSeq(s, SkipIn(s, 1, chars), Len(s))

\* s.strip()
strip(s) == SubSeq(s, SkipIn(s, 1, Whitespace), SkipBack(s, Len(s), Whitespace))

\* s.split(sep) for a one-character sep: always at least one piece.
RECURSIVE split(_, _)
split(s, sep) ==
    LET j == FindIn(s, 1, {sep})
    IN  IF j > Len(s) THEN <<s>>
        ELSE <<SubSeq(s, 1, j - 1)>> \o split(SubSeq(s, j + 1, Len(s)), sep)

\* s[:n]
Slice(s, n) == SubSeq(s, 1, IF n < Len(s) THEN n ELSE Len(s))

\* c * n
RECURSIVE Repeat(_, _)
Repeat(c, n) == IF n <= 0 THEN <<>> ELSE <<c>> \o Repeat(c, n - 1)

\* all strings over chars of length at most n
StringsUpTo(chars, n) == UNION {[1..k -> chars] : k \in 0..n}

\* concatenation of a sequence of strings
RECURSIVE Concat(_)
Concat(ss) == IF ss = <<>> THEN <<>> ELSE Head(ss) \o Concat(Tail(ss))

----------------------------------------------------------------------------
(* The replacement template of re.sub (re._parser.parse_template and       *)
(* expand_template, which re.sub at lines 71 and 189 runs on its second    *)
(* argument)                                                               *)

\* the exceptions that the template parser raises
ReError    == <<"re.error">>
IndexError == <<"IndexError">>
Raised(x)  == x \in {ReError, IndexError}

OctDigit    == {"0", "1", "2", "3", "4", "5", "6", "7"}
AsciiLetter == {Chr(n) : n \in (65..90) \cup (97..122)}

\* int(digits, base) of a string of digits, saturating at 1000
RECURSIVE digits_value(_, _, _, _)
digits_value(digits, i, base, acc) ==
    IF i > Len(digits) \/ acc >= 1000 THEN acc
    ELSE digits_value(digits, i + 1, base, acc * base + Code(digits[i]) - 48)

\* the characters up to 255 that may start an identifier (XID_Start and
\* "_"), and those that may continue one (XID_Continue)
IdStart ==
    AsciiLetter \cup {"_"}
        \cup {Chr(n) : n \in {170, 181, 186} \cup (192..214) \cup (216..246)
                                \cup (248..255)}
IdContinue == IdStart \cup Digit \cup {Chr(183)}

\* name.isidentifier()
isidentifier(name) ==
    /\ name # <<>>
    /\ name[1] \in IdStart
    /\ \A i \in 1..Len(name) : name[i] \in IdContinue

\* the characters int() strips from both ends of a str: the ASCII
\* whitespace \t \n \v \f \r and space, and chr(133) and chr(160), which it
\* reads as spaces; chr(28)..chr(31) are whitespace to str.strip() and not
\* to int()
IntSpace == {" ", "\t", "\n", "\r", "\f"} \cup {Chr(n) : n \in {11, 133, 160}}

\* int(name) of a group name in \g<name>: the value, or -1 where the parser
\* raises (int() raises ValueError, or the value is negative).  int()
\* strips its whitespace, takes one sign, and digits with single underscores
\* between them.
group_index(name) ==
    LET t   == SubSeq(name, SkipIn(name, 1, IntSpace),
                      SkipBack(name, Len(name), IntSpace))
        neg == t # <<>> /\ t[1] = "-"
        u   == IF t # <<>> /\ t[1] \in {"+", "-"} THEN Tail(t) ELSE t
        ok  == /\ u # <<>>
               /\ \A i \in 1..Len(u) :
                     \/ u[i] \in Digit
                     \/ /\ u[i] = "_"
                        /\ 1 < i /\ i < Len(u)
                        /\ u[i - 1] \in Digit /\ u[i + 1] \in Digit
        v   == digits_value(SelectSeq(u, LAMBDA c : c \in Digit), 1, 10, 0)
    IN  IF ~ok \/ (neg /\ v > 0) THEN -1 ELSE v

\* The template is read left to right from index i; acc is the text made so
\* far, groups the text of group 0 (the whole match), group 1, ...  The
\* result is the replacement text, or the exception raised.
\*   \g<name>   the group of that number; re.error when ill-formed or the
\*              number is no group, IndexError for an identifier (the
\*              patterns of build.py name no group)
\*   \0 \0d \0dd, \ddd octal: the character of that code
\*   \d \dd     the group of that number, re.error when there is none
\*   \a \b \f \n \r \t \v \\   the character
\*   \ + another ASCII letter  re.error
\*   \ + any other character   both characters, as written
\*   \ at the end              re.error
RECURSIVE expand_scan(_, _, _, _)
expand_scan(repl, i, groups, acc) ==
    LET n      == Len(repl)
        B      == {k \in i..n : repl[k] = "\\"}
        j      == IF B = {} THEN n + 1 ELSE MinOf(B)
        lit    == acc \o SubSeq(repl, i, j - 1)
        at(k)  == IF k <= n THEN repl[k] ELSE ""
        group(index, next) ==
            IF index < 0 \/ index >= Len(groups) THEN ReError
            ELSE expand_scan(repl, next, groups, lit \o groups[index + 1])
        char(c, next) == expand_scan(repl, next, groups, Append(lit, c))
    IN  IF j > n THEN lit
        ELSE IF j = n THEN ReError
        ELSE LET c == repl[j + 1]
             IN  CASE c = "g" ->
                        LET E    == {k \in (j + 3)..n : repl[k] \in {">", "\\"}}
                            e    == IF E = {} THEN 0 ELSE MinOf(E)
                            name == SubSeq(repl, j + 3, e - 1)
                        IN  IF at(j + 2) # "<" \/ e = 0 THEN ReError
                            ELSE IF repl[e] = "\\" \/ name = <<>> THEN ReError
                            ELSE IF e = n - 1 /\ repl[n] = "\\" THEN ReError
                            ELSE IF isidentifier(name) THEN IndexError
                            ELSE group(group_index(name), e + 1)
                   [] c = "0" ->
                        LET k == IF at(j + 2) \notin OctDigit THEN j + 1
                                 ELSE IF at(j + 3) \notin OctDigit THEN j + 2
                                 ELSE j + 3
                        IN  char(Chr(digits_value(SubSeq(repl, j + 1, k), 1, 8, 0) % 256),
                                 k + 1)
                   [] c \in Digit \ {"0"} ->
                        IF at(j + 2) \notin Digit
                        THEN group(Code(c) - 48, j + 2)
                        ELSE IF {c, at(j + 2), at(j + 3)} \subseteq OctDigit
                        THEN LET v == digits_value(SubSeq(repl, j + 1, j + 3), 1, 8, 0)
                             IN  IF v > 255 THEN ReError ELSE char(Chr(v), j + 4)
                        ELSE group(digits_value(SubSeq(repl, j + 1, j + 2), 1, 10, 0),
                                   j + 3)
                   [] c = "a"  -> char(Chr(7), j + 2)
                   [] c = "b"  -> char(Chr(8), j + 2)
                   [] c = "f"  -> char("\f", j + 2)
                   [] c = "n"  -> char("\n", j + 2)
                   [] c = "r"  -> char("\r", j + 2)
                   [] c = "t"  -> char("\t", j + 2)
                   [] c = "v"  -> char(Chr(11), j + 2)
                   [] c = "\\" -> char("\\", j + 2)
                   [] c \in AsciiLetter -> ReError
                   [] OTHER -> expand_scan(repl, j + 2, groups, lit \o <<"\\", c>>)

\* the replacement for one match, or the exception
expand_template(repl, groups) == expand_scan(repl, 1, groups, <<>>)

----------------------------------------------------------------------------
(* extract_title_from_markdown                                             *)

TitleLimit == 50

\* the for loop of lines 37-40, from line index i on
RECURSIVE first_title_line(_, _)
first_title_line(lines, i) ==
    IF i > Len(lines) THEN None
    ELSE LET line == strip(lines[i])
         IN  IF /\ line # <<>>
                /\ ~StartsWithAt(line, 1, <<"!", "[", "[">>)
                /\ ~StartsWithAt(line, 1, <<"!", "[">>)
             THEN Slice(line, TitleLimit)
             ELSE first_title_line(lines, i + 1)

\* the function without the strip() of line 26: lines[0] may then be blank
extract_title_unstripped(content) ==
    LET lines == split(content, "\n")
        first_line == strip(lines[1])
    IN  IF StartsWithAt(first_line, 1, <<"#">>)
        THEN strip(lstrip(first_line, {"#"}))
        ELSE first_title_line(lines, 1)

extract_title_from_markdown(content) ==
    LET lines == split(strip(content), "\n")
    IN  IF lines = <<>> THEN None
        ELSE LET first_line == strip(lines[1])
             IN  IF StartsWithAt(first_line, 1, <<"#">>)
                 THEN strip(lstrip(first_line, {"#"}))
                 ELSE first_title_line(lines, 1)

----------------------------------------------------------------------------
(* parse_date_from_filename                                                *)

\* re.search in place of re.match: the first run of six digits anywhere
match_yymmdd_search(filename) ==
    LET I == {i \in 1..(Len(filename) - 5) :
                 \A k \in 0..5 : filename[i + k] \in Digit}
        i == CHOOSE x \in I : \A y \in I : x <= y
    IN  IF I = {} THEN None
        ELSE <<SubSeq(filename, i, i + 1), SubSeq(filename, i + 2, i + 3),
               SubSeq(filename, i + 4, i + 5)>>

\* re.match(r'(\d{2})(\d{2})(\d{2})', filename): the three groups, or None
match_yymmdd(filename) ==
    IF Len(filename) >= 6 /\ \A i \in 1..6 : filename[i] \in Digit
    THEN <<SubSeq(filename, 1, 2), SubSeq(filename, 3, 4), SubSeq(filename, 5, 6)>>
    ELSE None

parse_date_from_filename(filename) ==
    LET match == match_yymmdd(filename)
    IN  IF match # None
        THEN LET year == <<"2", "0">> \o match[1]
             IN  year \o <<"-">> \o match[2] \o <<"-">> \o match[3]
        ELSE None

----------------------------------------------------------------------------
(* The two image patterns                                                  *)

S_embed_open == <<"!", "[", "[">>
S_assets     == <<"a", "s", "s", "e", "t", "s", "/">>

\* obsidian_pattern  !\[\[([^\]]+)\]\]  tried at index i: the index of the
\* last character of the match, 0 when the pattern does not match at i.
\* [^\]]+ is greedy and must be followed by "]", so it ends at the first "]".
obsidian_end(s, i) ==
    IF ~StartsWithAt(s, i, S_embed_open) THEN 0
    ELSE LET j == FindIn(s, i + 3, {"]"})
         IN  IF j > i + 3 /\ j + 1 <= Len(s) /\ s[j + 1] = "]" THEN j + 1 ELSE 0

\* group 1 of the match of obsidian_pattern at i that ends at e
obsidian_name(s, i, e) == SubSeq(s, i + 3, e - 2)

\* (?:assets/)?([^\)]+)\)  tried at index q, the greedy optional group first:
\* <<index of the closing ")", group 1>>, or None
standard_target(s, q) ==
    LET qa == q + Len(S_assets)
        ra == FindIn(s, qa, {")"})
        rb == FindIn(s, q, {")"})
    IN  IF StartsWithAt(s, q, S_assets) /\ ra <= Len(s) /\ ra > qa
        THEN <<ra, SubSeq(s, qa, ra - 1)>>
        ELSE IF rb <= Len(s) /\ rb > q
        THEN <<rb, SubSeq(s, q, rb - 1)>>
        ELSE None

\* the lazy .*? of standard_pattern, having consumed s[i+2..p-1]: the first p
\* at which "](" and the rest of the pattern match; "." does not match "\n".
RECURSIVE standard_from(_, _)
standard_from(s, p) ==
    IF p + 1 > Len(s) THEN None
    ELSE LET t == IF s[p] = "]" /\ s[p + 1] = "(" THEN standard_target(s, p + 2)
                  ELSE None
         IN  IF t # None THEN t
             ELSE IF s[p] = "\n" THEN None
             ELSE standard_from(s, p + 1)

\* standard_pattern  !\[.*?\]\((?:assets/)?([^\)]+)\)  tried at index i:
\* <<index of the last character of the match, group 1>>, or None
standard_match(s, i) ==
    IF ~StartsWithAt(s, i, <<"!", "[">>) THEN None
    ELSE standard_from(s, i + 2)

\* re.findall(obsidian_pattern, s), scanning from index pos
RECURSIVE findall_obsidian(_, _)
findall_obsidian(s, pos) ==
    IF pos > Len(s) THEN <<>>
    ELSE LET e == obsidian_end(s, pos)
         IN  IF e = 0 THEN findall_obsidian(s, pos + 1)
             ELSE <<obsidian_name(s, pos, e)>> \o findall_obsidian(s, e + 1)

\* re.findall(standard_pattern, s), scanning from index pos
RECURSIVE findall_standard(_, _)
findall_standard(s, pos) ==
    IF pos > Len(s) THEN <<>>
    ELSE LET m == standard_match(s, pos)
         IN  IF m = None THEN findall_standard(s, pos + 1)
             ELSE <<m[2]>> \o findall_standard(s, m[1] + 1)

\* one pass over the text trying both patterns at each index: the names in
\* textual order, the two syntaxes interleaved
RECURSIVE findall_either(_, _)
findall_either(s, pos) ==
    IF pos > Len(s) THEN <<>>
    ELSE LET e == obsidian_end(s, pos)
             m == standard_match(s, pos)
         IN  IF e # 0
             THEN <<obsidian_name(s, pos, e)>> \o findall_either(s, e + 1)
             ELSE IF m # None THEN <<m[2]>> \o findall_either(s, m[1] + 1)
             ELSE findall_either(s, pos + 1)

extract_images_in_text_order(content) == findall_either(content, 1)

extract_images_from_markdown(content) ==
    LET images0 == <<>>
        images1 == images0 \o findall_obsidian(content, 1)
        images2 == images1 \o findall_standard(content, 1)
    IN  images2

----------------------------------------------------------------------------
(* convert_obsidian_images                                                 *)

\* line 73: the replacement template f'![](assets/{post_id}/\\1)'.  post_id
\* is part of the template, so that an escape in it is read as one.
embed_template(post_id) ==
    <<"!", "[", "]", "(">> \o S_assets \o post_id \o <<"/", "\\", "1", ")">>

\* the template expanded for the match ![[name]]: the text, or the exception
embed_replacement(post_id, name) ==
    expand_template(embed_template(post_id),
                    <<S_embed_open \o name \o <<"]", "]">>, name>>)

\* the matches of obsidian_pattern in s replaced, scanning from index pos
RECURSIVE sub_obsidian_from(_, _, _)
sub_obsidian_from(s, pos, post_id) ==
    IF pos > Len(s) THEN <<>>
    ELSE LET e == obsidian_end(s, pos)
         IN  IF e = 0 THEN <<s[pos]>> \o sub_obsidian_from(s, pos + 1, post_id)
             ELSE embed_replacement(post_id, obsidian_name(s, pos, e))
                      \o sub_obsidian_from(s, e + 1, post_id)

\* re.sub(obsidian_pattern, template, s): the template is parsed before the
\* search, so that a template that is ill-formed raises whether or not the
\* text holds a match
sub_obsidian(s, post_id) ==
    LET parsed == embed_replacement(post_id, <<>>)
    IN  IF Raised(parsed) THEN parsed ELSE sub_obsidian_from(s, 1, post_id)

convert_obsidian_images(markdown, post_id) == sub_obsidian(markdown, post_id)

----------------------------------------------------------------------------
(* The file system                                                         *)

\* a directory without files; a directory tree that does not exist
NoFiles == <<>>
NoTree  == [exists |-> FALSE, dirs |-> {}, files |-> NoFiles]
NoSource == [exists |-> FALSE, walk |-> <<>>]
NoRuns  == [organize_assets |-> 0, update_blog_js |-> 0]

\* a < b for str, as Path.__lt__ compares the names of files of one directory
RECURSIVE str_lt(_, _)
str_lt(a, b) ==
    IF b = <<>> THEN FALSE
    ELSE IF a = <<>> THEN TRUE
    ELSE IF Head(a) # Head(b) THEN Code(Head(a)) < Code(Head(b))
    ELSE str_lt(Tail(a), Tail(b))

S_md == <<".", "m", "d">>

\* BLOGS_DIR.glob of the pattern *.md: the names that end in .md
glob_md(dir) ==
    {name \in DOMAIN dir :
        Len(name) >= Len(S_md) /\ StartsWithAt(name, Len(name) - Len(S_md) + 1, S_md)}

\* Path.stem of a globbed name: the name without its final ".md", unless
\* the name is ".md", which has no suffix and is its own stem
stem_of(name) ==
    IF Len(name) > Len(S_md) THEN SubSeq(name, 1, Len(name) - Len(S_md)) ELSE name

\* f.read() of a file opened in text mode (lines 89-90, 175-176): universal
\* newlines, "\r\n" and "\r" are read as "\n".  (Written text goes to the
\* file as it is: "\n" is the line end of the platform.)
read_text(data) ==
    LET keep(i) == ~(data[i] = "\n" /\ i > 1 /\ data[i - 1] = "\r")
        kept    == SelectSeq([i \in 1..Len(data) |-> i], keep)
        text    == [k \in 1..Len(kept) |->
                       IF data[kept[k]] = "\r" THEN "\n" ELSE data[kept[k]]]
    IN  SubSeq(text, 1, Len(kept))

\* sorted(names), the reverse=True forgotten
RECURSIVE sorted_forward(_)
sorted_forward(names) ==
    IF names = {} THEN <<>>
    ELSE LET low == CHOOSE x \in names : \A y \in names \ {x} : str_lt(x, y)
         IN  <<low>> \o sorted_forward(names \ {low})

\* sorted(names, reverse=True)
RECURSIVE sorted_reverse(_)
sorted_reverse(names) ==
    IF names = {} THEN <<>>
    ELSE LET top == CHOOSE x \in names : \A y \in names \ {x} : str_lt(y, x)
         IN  <<top>> \o sorted_reverse(names \ {top})

----------------------------------------------------------------------------
(* Calls of the four pure functions on inputs drawn from bounded sets.     *)
(* The file system plays no part in them and stays empty.                  *)

FilesIdle ==
    /\ blogs = NoFiles
    /\ source_assets = NoSource
    /\ docs_blogs = NoFiles
    /\ docs_assets = NoTree
    /\ blog_js = None
    /\ posts_metadata = <<>>
    /\ runs = NoRuns
    /\ orig = [docs_assets |-> NoTree, blog_js |-> None]

FilesUnchanged ==
    UNCHANGED <<blogs, source_assets, docs_blogs, docs_assets, blog_js,
                posts_metadata, runs, orig>>

MaxTitleLen == 5
MaxStemLen  == 7
MaxPieces   == 4
MaxDocs     == 2
MaxRuns     == 2

TitleChars == {"#", " ", "\n", "!", "[", "a"}

\* lines around the 50-character limit, alone or after/before other lines
LongTitleInputs ==
    { pre \o Repeat("a", n) \o suf :
        pre \in {<<>>, <<" ">>, <<"!", "[", "a", "\n">>, <<"\n", "\t">>},
        n   \in (TitleLimit - 2)..(TitleLimit + 2),
        suf \in {<<>>, <<" ", "b", "b", "b">>, <<" ", "\n", "#">>} }

TitleInputs == StringsUpTo(TitleChars, MaxTitleLen) \cup LongTitleInputs

StemChars == {"0", "1", "-", "a"}

StemInputs == StringsUpTo(StemChars, MaxStemLen)

Pieces ==
    { <<"!", "[", "[", "a", "]", "]">>,
      <<"!", "[", "x", "]", "(", "b", ")">>,
      <<"!", "[", "]", "(">> \o S_assets \o <<"c", ")">>,
      S_embed_open,
      <<"]", "]">>,
      <<"]", "(">>,
      <<")">>,
      <<"a">>,
      <<"\n">>,
      S_assets }

ContentInputs == { Concat(ps) : ps \in StringsUpTo(Pieces, MaxPieces) }

\* a plain document id, one that holds a reference to the whole match, one
\* that holds an escape the template parser rejects
PostIdInputs == { <<"d">>, <<"\\", "g", "<", "0", ">">>, <<"\\", "d">> }

InitTitle  == FilesIdle /\ pc = "call" /\ ret = None /\ arg \in TitleInputs
InitDate   == FilesIdle /\ pc = "call" /\ ret = None /\ arg \in StemInputs
InitImages == FilesIdle /\ pc = "call" /\ ret = None /\ arg \in ContentInputs
InitConvert ==
    FilesIdle /\ pc = "call" /\ ret = <<>> /\ arg \in ContentInputs \X PostIdInputs

CallTitle ==
    /\ pc = "call"
    /\ ret' = extract_title_from_markdown(arg)
    /\ pc' = "return"
    /\ UNCHANGED arg /\ FilesUnchanged

CallDate ==
    /\ pc = "call"
    /\ ret' = parse_date_from_filename(arg)
    /\ pc' = "return"
    /\ UNCHANGED arg /\ FilesUnchanged

CallImages ==
    /\ pc = "call"
    /\ ret' = extract_images_from_markdown(arg)
    /\ pc' = "return"
    /\ UNCHANGED arg /\ FilesUnchanged

\* the normalizer applied to the content, then to its own output, unless
\* the first call raised
CallConvert ==
    /\ pc \in {"call", "once"}
    /\ ret' = Append(ret, convert_obsidian_images(
                              IF pc = "call" THEN arg[1] ELSE ret[1], arg[2]))
    /\ pc' = IF pc = "once" THEN "twice"
             ELSE IF Raised(ret'[1]) THEN "raised" ELSE "once"
    /\ UNCHANGED arg /\ FilesUnchanged

SpecTitle   == InitTitle /\ [][CallTitle]_vars
SpecDate    == InitDate /\ [][CallDate]_vars
SpecImages  == InitImages /\ [][CallImages]_vars
SpecConvert == InitConvert /\ [][CallConvert]_vars

----------------------------------------------------------------------------
(* Properties of the title and date extractors                             *)

IsBlank(l) == \A i \in 1..Len(l) : l[i] \in Whitespace

\* l without its surrounding whitespace
Trimmed(l) ==
    LET N == {i \in 1..Len(l) : l[i] \notin Whitespace}
    IN  IF N = {} THEN <<>> ELSE SubSeq(l, MinOf(N), MaxOf(N))

\* l without its leading "#" characters
Unmarked(l) ==
    LET N == {i \in 1..Len(l) : l[i] # "#"}
    IN  IF N = {} THEN <<>> ELSE SubSeq(l, MinOf(N), Len(l))

\* the line opens like an image reference of either syntax: "![[" or "!["
LooksLikeImage(l) ==
    LET t == Trimmed(l) IN Len(t) >= 2 /\ t[1] = "!" /\ t[2] = "["

RawLines(content) == split(content, "\n")

NonBlankLines(content) ==
    {i \in 1..Len(RawLines(content)) : ~IsBlank(RawLines(content)[i])}

TitleCandidates(content) ==
    {i \in NonBlankLines(content) : ~LooksLikeImage(RawLines(content)[i])}

TitleRule(content) ==
    LET L  == RawLines(content)
        NB == NonBlankLines(content)
        TC == TitleCandidates(content)
    IN  IF NB # {} /\ Trimmed(L[MinOf(NB)])[1] = "#"
        THEN Trimmed(Unmarked(Trimmed(L[MinOf(NB)])))
        ELSE IF TC = {} THEN None
        ELSE LET t == Trimmed(L[MinOf(TC)])
             IN  SubSeq(t, 1, IF Len(t) > TitleLimit THEN TitleLimit ELSE Len(t))

\* C6: extract_title_from_markdown follows the title rule: a first non-blank
\* line that starts with "#" gives that line without its leading "#" and
\* surrounding whitespace; otherwise the first non-blank line that does not
\* open like an image reference, whitespace-trimmed and cut to 50
\* characters; the result is absent exactly when there is no such line.
C6_TitleRule ==
    pc = "return" =>
        /\ ret = TitleRule(arg)
        /\ (ret = None) <=> (TitleCandidates(arg) = {})

\* the line after an image line was returned as the title, cut at the limit
C6_Witness ==
    /\ pc = "return"
    /\ arg = <<"!", "[", "a", "\n">> \o Repeat("a", TitleLimit + 1)
    /\ ret = Repeat("a", TitleLimit)

\* the stem starts with six digits
SixDigits(stem) == Len(stem) >= 6 /\ \A i \in 1..6 : stem[i] \in Digit

\* C7 as amended: a stem that begins with at least six digits gives
\* 20YY-MM-DD built from the first six, unchecked; any other stem is absent.
C7_DateFromFirstSixDigits ==
    pc = "return" =>
        IF SixDigits(arg)
        THEN ret = <<"2", "0", arg[1], arg[2], "-", arg[3], arg[4], "-",
                     arg[5], arg[6]>>
        ELSE ret = None

\* C7 as stated: a date is returned only for a stem that begins with
\* exactly six digits (the seventh character, if any, is not a digit), and
\* then it is 20YY-MM-DD; every stem not starting with six digits is absent.
C7_ExactlySixDigits ==
    pc = "return" =>
        IF SixDigits(arg) /\ (Len(arg) = 6 \/ arg[7] \notin Digit)
        THEN ret = <<"2", "0", arg[1], arg[2], "-", arg[3], arg[4], "-",
                     arg[5], arg[6]>>
        ELSE ret = None

\* a stem of seven digits has been given a date
C7_Witness ==
    /\ pc = "return"
    /\ arg = <<"0", "1", "1", "0", "1", "1", "0">>
    /\ ret = <<"2", "0", "0", "1", "-", "1", "0", "-", "1", "1">>

----------------------------------------------------------------------------
(* Properties of the image scanner and the normalizer                      *)

\* "![[" NAME "]]" stands at i with its first "]" at j: NAME is non-empty
\* and holds no "]"
IsEmbedAt(s, i, j) ==
    /\ StartsWithAt(s, i, S_embed_open)
    /\ j > i + 3 /\ j + 1 <= Len(s)
    /\ s[j] = "]" /\ s[j + 1] = "]"
    /\ \A k \in (i + 3)..(j - 1) : s[k] # "]"

\* <<start, end, NAME>> of every place an embed reference can be read
EmbedSpans(s) ==
    { <<x[1], x[2] + 1, SubSeq(s, x[1] + 3, x[2] - 1)>> :
        x \in UNION { {<<i, j>> : j \in {k \in (i + 4)..Len(s) : IsEmbedAt(s, i, k)}} :
                        i \in {k \in 1..Len(s) : StartsWithAt(s, k, S_embed_open)} } }

\* "](" at p opens a non-empty target that some ")" closes
OpensTarget(s, p) ==
    /\ p + 2 <= Len(s)
    /\ s[p] = "]" /\ s[p + 1] = "(" /\ s[p + 2] # ")"
    /\ \E r \in (p + 3)..Len(s) : s[r] = ")"

\* "![" ALT "](" TARGET ")" stands at i: ALT, without a line break, ends at
\* the first p that opens a target, and TARGET ends at the first ")" at r
IsLinkAt(s, i, p, r) ==
    /\ StartsWithAt(s, i, <<"!", "[">>)
    /\ p >= i + 2 /\ OpensTarget(s, p)
    /\ \A k \in (i + 2)..(p - 1) : s[k] # "\n" /\ ~OpensTarget(s, k)
    /\ r > p + 2 /\ r <= Len(s) /\ s[r] = ")"
    /\ \A k \in (p + 2)..(r - 1) : s[k] # ")"

\* the NAME of a target: the target after an "assets/" prefix when something
\* follows the prefix, else the whole target
TargetName(t) ==
    IF Len(t) > Len(S_assets) /\ SubSeq(t, 1, Len(S_assets)) = S_assets
    THEN SubSeq(t, Len(S_assets) + 1, Len(t))
    ELSE t

\* <<start, end, NAME>> of every place a standard link can be read
LinkSpans(s) ==
    { <<x[1], x[3], TargetName(SubSeq(s, x[2] + 2, x[3] - 1))>> :
        x \in UNION { UNION { {<<i, p, r>> :
                                 r \in {k \in (p + 3)..Len(s) : IsLinkAt(s, i, p, k)}} :
                              p \in {k \in (i + 2)..Len(s) : OpensTarget(s, k)} } :
                        i \in {k \in 1..Len(s) : StartsWithAt(s, k, <<"!", "[">>)} } }

\* the references among spans from index i on: the spans taken left to
\* right, a span that starts inside a reference already taken being none
RECURSIVE ReferencesFrom(_, _, _)
ReferencesFrom(spans, i, n) ==
    IF i > n THEN {}
    ELSE LET here == {x \in spans : x[1] = i}
         IN  IF here = {} THEN ReferencesFrom(spans, i + 1, n)
             ELSE here \cup ReferencesFrom(spans, MaxOf({x[2] : x \in here}) + 1, n)

References(s, spans) == ReferencesFrom(spans, 1, Len(s))

\* the names of a set of references in order of appearance
NamesInOrder(refs) ==
    [k \in 1..Cardinality(refs) |->
        (CHOOSE x \in refs : Cardinality({y \in refs : y[1] < x[1]}) = k - 1)[3]]

EmbedRefs(s) == References(s, EmbedSpans(s))
LinkRefs(s)  == References(s, LinkSpans(s))

\* C5: extract_images_from_markdown returns the embed names in order of
\* appearance, then the standard-link names in order of appearance with a
\* leading "assets/" removed, the groups not interleaved and duplicates
\* kept: one entry per embed reference plus one per standard reference.
C5_EmbedsThenLinks ==
    pc = "return" =>
        /\ ret = NamesInOrder(EmbedRefs(arg)) \o NamesInOrder(LinkRefs(arg))
        /\ Len(ret) = Cardinality(EmbedRefs(arg)) + Cardinality(LinkRefs(arg))

\* a link that precedes an embed in the text follows it in the result, with
\* its "assets/" prefix removed
C5_Witness ==
    /\ pc = "return"
    /\ arg = <<"!", "[", "]", "(">> \o S_assets \o <<"c", ")">>
                \o <<"!", "[", "[", "a", "]", "]">>
    /\ ret = << <<"a">>, <<"c">> >>

HasEmbedOpen(t) == \E i \in 1..Len(t) : StartsWithAt(t, i, S_embed_open)

\* the document id holds no backslash: the template of line 73 then holds
\* no escape but its own \1
PlainId(post_id) == \A i \in 1..Len(post_id) : post_id[i] # "\\"

\* neither the document id nor any embed name holds "![["
NoNestedEmbed(content, post_id) ==
    /\ ~HasEmbedOpen(post_id)
    /\ \A x \in EmbedRefs(content) : ~HasEmbedOpen(x[3])

\* C3 as stated: for every content and document id the normalizer returns,
\* normalizing twice equals normalizing once, and text without an embed
\* reference, such as text already in standard form, is returned unchanged.
C3_IdempotentAlways ==
    /\ pc # "raised"
    /\ pc = "twice" => ret[2] = ret[1]
    /\ (pc # "call" /\ EmbedRefs(arg[1]) = {}) => ret[1] = arg[1]

\* C3, the part that holds: for a document id without backslash the
\* normalizer returns, text without an embed reference is returned
\* unchanged, and normalizing twice equals normalizing once whenever neither
\* the document id nor any embed name contains "![[".
C3_IdempotentUnlessNested ==
    PlainId(arg[2]) =>
        /\ pc # "raised"
        /\ (pc = "twice" /\ NoNestedEmbed(arg[1], arg[2])) => ret[2] = ret[1]
        /\ (pc # "call" /\ EmbedRefs(arg[1]) = {}) => ret[1] = arg[1]

\* the document id \g<0> was read as a group reference: the first pass put
\* the embed itself into the link it wrote, and the second pass rewrote it
C3_Witness ==
    /\ pc = "twice"
    /\ arg = << <<"!", "[", "[", "a", "]", "]">>, <<"\\", "g", "<", "0", ">">> >>
    /\ ret[1] = <<"!", "[", "]", "(">> \o S_assets
                    \o <<"!", "[", "[", "a", "]", "]", "/", "a", ")">>
    /\ ret[2] # ret[1]

\* the document id \d is not a replacement template: text in standard form
\* was not returned, the call raised
C3_RaisedWitness ==
    /\ pc = "raised"
    /\ arg = << <<"!", "[", "x", "]", "(", "b", ")">>, <<"\\", "d">> >>
    /\ ret = << ReError >>

----------------------------------------------------------------------------
(* process_markdown_files                                                  *)

\* bool(x) of a str or None
Truthy(x) == x # None /\ x # <<>>

\* lines 93-96: what is extracted from one file
extract_post(name, content) ==
    [id     |-> stem_of(name),
     date   |-> parse_date_from_filename(stem_of(name)),
     title  |-> extract_title_from_markdown(content),
     images |-> extract_images_from_markdown(content)]

\* the loop with the output file written only for a file that gets a record
RECURSIVE process_recorded_only(_, _, _, _, _)
process_recorded_only(md_files, k, dir, out, metadata) ==
    IF k > Len(md_files) THEN <<out, metadata, None>>
    ELSE LET name == md_files[k]
             content == read_text(dir[name])
             post == extract_post(name, content)
             converted_content == convert_obsidian_images(content, post.id)
         IN  IF Raised(converted_content) THEN <<out, metadata, converted_content>>
             ELSE IF Truthy(post.date) /\ Truthy(post.title)
             THEN process_recorded_only(md_files, k + 1, dir,
                      (name :> converted_content) @@ out, Append(metadata, post))
             ELSE process_recorded_only(md_files, k + 1, dir, out, metadata)

\* the loop of lines 85-121 from the k-th file on: <<files of docs/blogs,
\* posts_metadata, None or the exception that ended the loop>>.  The
\* exception of convert_obsidian_images (line 99) leaves the loop before
\* the file is written.
RECURSIVE process_from(_, _, _, _, _)
process_from(md_files, k, dir, out, metadata) ==
    IF k > Len(md_files) THEN <<out, metadata, None>>
    ELSE LET name == md_files[k]
             content == read_text(dir[name])
             post == extract_post(name, content)
             converted_content == convert_obsidian_images(content, post.id)
         IN  IF Raised(converted_content) THEN <<out, metadata, converted_content>>
             ELSE process_from(md_files, k + 1, dir,
                      (name :> converted_content) @@ out,
                      IF Truthy(post.date) /\ Truthy(post.title)
                      THEN Append(metadata, post)
                      ELSE metadata)

\* An exception leaves the function without a list returned and ends main:
\* pc = "raised", the files written so far stay.
process_markdown_files ==
    /\ pc \in {"idle", "published"}
    /\ LET done == process_from(sorted_reverse(glob_md(blogs)), 1, blogs,
                                docs_blogs, <<>>)
       IN  /\ docs_blogs' = done[1]
           /\ posts_metadata' = IF done[3] = None THEN done[2] ELSE <<>>
           /\ pc' = IF done[3] = None THEN "processed" ELSE "raised"
    /\ runs' = [runs EXCEPT !.organize_assets = 0]
    /\ UNCHANGED <<blogs, source_assets, docs_assets, blog_js, orig, arg, ret>>

----------------------------------------------------------------------------
(* organize_assets                                                         *)

\* the directory listing only: the files of the top directory, no os.walk
RECURSIVE find_image_top_only(_, _, _)
find_image_top_only(walk, k, image) ==
    IF k > Len(walk) \/ k > 1 THEN 0
    ELSE IF image \in DOMAIN walk[k] THEN k
    ELSE find_image_top_only(walk, k + 1, image)

\* the os.walk loop of lines 155-162 from the k-th directory on: the index
\* of the first directory whose files hold image, 0 when none does
RECURSIVE find_image(_, _, _)
find_image(walk, k, image) ==
    IF k > Len(walk) THEN 0
    ELSE IF image \in DOMAIN walk[k] THEN k
    ELSE find_image(walk, k + 1, image)

\* the image loop giving up at the first image that is not found
RECURSIVE copy_images_until_missing(_, _, _, _, _)
copy_images_until_missing(images, i, walk, post_id, files) ==
    IF i > Len(images) THEN files
    ELSE LET d == find_image(walk, 1, images[i])
         IN  IF d = 0 THEN files
             ELSE copy_images_until_missing(images, i + 1, walk, post_id,
                      (<<post_id, images[i]>> :> walk[d][images[i]]) @@ files)

\* the image loop of lines 152-165 from the i-th image on: the files of the
\* destination tree, by path below DOCS_ASSETS_DIR
RECURSIVE copy_images(_, _, _, _, _)
copy_images(images, i, walk, post_id, files) ==
    IF i > Len(images) THEN files
    ELSE LET image == images[i]
             d     == find_image(walk, 1, image)
         IN  copy_images(images, i + 1, walk, post_id,
                 IF d # 0
                 THEN (<<post_id, image>> :> walk[d][image]) @@ files
                 ELSE files)

\* the post loop of lines 140-165 from the k-th record on
RECURSIVE organize_from(_, _, _, _)
organize_from(posts, k, walk, tree) ==
    IF k > Len(posts) THEN tree
    ELSE LET post_id == posts[k].id
             images  == posts[k].images
         IN  IF images = <<>> THEN organize_from(posts, k + 1, walk, tree)
             ELSE organize_from(posts, k + 1, walk,
                      [tree EXCEPT !.dirs  = @ \cup {post_id},
                                   !.files = copy_images(images, 1, walk, post_id, @)])

\* the destination root kept as it is, only created when missing
keep_assets(tree) == [tree EXCEPT !.exists = TRUE]

\* lines 134-137: shutil.rmtree of the destination root, then mkdir
reset_assets(tree) == [exists |-> TRUE, dirs |-> {}, files |-> NoFiles]

organize_assets ==
    /\ pc \in {"processed", "organized"}
    /\ runs.organize_assets < MaxRuns
    /\ docs_assets' =
           IF ~source_assets.exists THEN docs_assets
           ELSE organize_from(posts_metadata, 1, source_assets.walk,
                              reset_assets(docs_assets))
    /\ runs' = [runs EXCEPT !.organize_assets = @ + 1]
    /\ pc' = "organized"
    /\ UNCHANGED <<blogs, source_assets, docs_blogs, blog_js, posts_metadata,
                   orig, arg, ret>>

----------------------------------------------------------------------------
(* update_blog_js                                                          *)

S_marker      == <<"p", "o", "s", "t", "s", "M", "e", "t", "a", "d", "a", "t", "a",
      ":">>
S_list_open   == S_marker \o <<" ", "[", "\n">>
S_post_id     == <<" ", " ", " ", " ", "{", " ", "i", "d", ":", " ", "'">>
S_post_date   == <<"'", ",", " ", "d", "a", "t", "e", ":", " ", "'">>
S_post_title  == <<"'", ",", " ", "t", "i", "t", "l", "e", ":", " ", "'">>
S_post_images == <<"'", ",", " ", "i", "m", "a", "g", "e", "s", ":", " ">>
S_post_close  == <<" ", "}", ",", "\n">>
S_list_close  == <<" ", " ", "]">>

\* the hexadecimal digits, as json.dumps writes them
HexDigits ==
    <<"0", "1", "2", "3", "4", "5", "6", "7", "8", "9", "a", "b", "c", "d",
      "e", "f">>

\* json.dumps (ensure_ascii) of one character of a str, up to chr(255):
\* the short escapes, the printable ASCII characters as they are, and
\* \u00xx for every other character
json_char(c) ==
    CASE c = "\"" -> <<"\\", "\"">>
      [] c = "\\" -> <<"\\", "\\">>
      [] c = "\n" -> <<"\\", "n">>
      [] c = "\r" -> <<"\\", "r">>
      [] c = "\t" -> <<"\\", "t">>
      [] c = "\f" -> <<"\\", "f">>
      [] c = Chr(8) -> <<"\\", "b">>
      [] Code(c) \in 32..126 -> <<c>>
      [] OTHER    -> <<"\\", "u", "0", "0", HexDigits[(Code(c) \div 16) + 1],
                       HexDigits[(Code(c) % 16) + 1]>>

json_str(s) ==
    <<"\"">> \o Concat([i \in 1..Len(s) |-> json_char(s[i])]) \o <<"\"">>

\* json.dumps(images) of a list of str
json_dumps(images) ==
    <<"[">>
    \o Concat([i \in 1..Len(images) |->
                  (IF i > 1 THEN <<",", " ">> ELSE <<>>) \o json_str(images[i])])
    \o <<"]">>

\* title.replace("'", "\\'")
escape_quotes(title) ==
    Concat([i \in 1..Len(title) |->
               IF title[i] = "'" THEN <<"\\", "'">> ELSE <<title[i]>>])

\* line 184: the object literal of one record
post_js(post) ==
    S_post_id \o post.id \o S_post_date \o post.date \o S_post_title
    \o escape_quotes(post.title) \o S_post_images \o json_dumps(post.images)
    \o S_post_close

\* lines 180-185
metadata_js(posts) ==
    S_list_open \o Concat([k \in 1..Len(posts) |-> post_js(posts[k])])
    \o S_list_close

\* pattern  postsMetadata:\s*\[[\s\S]*?\]  tried at index i: the index of
\* the last character of the match, 0 when there is none.  \s* is followed
\* by "[", and the lazy [\s\S]*? ends at the first "]" after it.
marker_end(content, i) ==
    IF ~StartsWithAt(content, i, S_marker) THEN 0
    ELSE LET j == SkipIn(content, i + Len(S_marker), Whitespace)
             k == FindIn(content, j + 1, {"]"})
         IN  IF j <= Len(content) /\ content[j] = "[" /\ k <= Len(content)
             THEN k
             ELSE 0

\* the first match of the pattern at or after index i replaced
RECURSIVE sub_first_from(_, _, _)
sub_first_from(content, i, repl) ==
    IF i > Len(content) THEN content
    ELSE LET e == marker_end(content, i)
         IN  IF e = 0 THEN sub_first_from(content, i + 1, repl)
             ELSE SubSeq(content, 1, i - 1)
                      \o expand_template(repl, <<SubSeq(content, i, e)>>)
                      \o SubSeq(content, e + 1, Len(content))

\* re.sub(pattern, repl, content, count=1): the text, or the exception that
\* the template raises, match or no match
sub_first(content, repl) ==
    LET parsed == expand_template(repl, << <<>> >>)
    IN  IF Raised(parsed) THEN parsed ELSE sub_first_from(content, 1, repl)

update_blog_js ==
    /\ pc \in {"organized", "published"}
    /\ runs.update_blog_js < MaxRuns
    /\ LET content     == read_text(blog_js)
           new_content == sub_first(content, metadata_js(posts_metadata))
       IN  IF blog_js = None
           THEN blog_js' = None /\ pc' = "published"
           ELSE IF Raised(new_content)
           THEN blog_js' = blog_js /\ pc' = "raised"
           ELSE blog_js' = new_content /\ pc' = "published"
    /\ runs' = [runs EXCEPT !.update_blog_js = @ + 1]
    /\ UNCHANGED <<blogs, source_assets, docs_blogs, docs_assets,
                   posts_metadata, orig, arg, ret>>

----------------------------------------------------------------------------
(* The build: a corpus, a source asset tree, a destination and a target    *)
(* script drawn from small sets, then process_markdown_files,              *)
(* organize_assets and update_blog_js in the order of main (lines 204-212),*)
(* the last two also run again by their caller.                            *)

Name_230101   == <<"2", "3", "0", "1", "0", "1", ".", "m", "d">>
Name_230101_a == <<"2", "3", "0", "1", "0", "1", "-", "a", ".", "m", "d">>
\* a name that is nothing but the extension: its stem is the whole name
Name_hidden   == <<".", "m", "d">>
\* a stem that the template of line 73 cannot hold: \d is no escape of re.sub
Name_escape   == <<"0", "\\", "d", ".", "m", "d">>

Names == {Name_230101, Name_230101_a, Name_hidden, Name_escape}

\* a heading and an embed of an image that the source tree holds
Doc_heading == <<"#", " ", "T", "\n", "!", "[", "[", "a", "]", "]">>
\* an embed of a missing image before one that exists; a line end of two
\* characters; a title with a quote
Doc_missing == <<"!", "[", "[", "m", "]", "]", "!", "[", "[", "a", "]", "]", "\r",
      "\n", "i", "t", "'", "s">>
\* a heading line without text
Doc_untitled == <<"#", "\n", "!", "[", "[", "a", "]", "]">>
\* the same image by standard link and by embed; a title that holds the
\* escape \a of re.sub
Doc_links == <<"\\", "a", "\n", "!", "[", "x", "]", "(", "a", "s", "s", "e", "t",
      "s", "/", "b", ")", "!", "[", "[", "b", "]", "]">>
\* nothing but an embed: no title
Doc_image_only == <<"!", "[", "[", "b", "]", "]">>
\* an embed of an image whose name holds chr(233): json.dumps writes it as
\* \u00e9, and \u is no escape of re.sub
Doc_escape == <<"T", "\n", "!", "[", "[", Chr(233), "]", "]">>

Contents ==
    {Doc_heading, Doc_missing, Doc_untitled, Doc_links, Doc_image_only, Doc_escape}

Corpora ==
    UNION { [D -> Contents] : D \in {N \in SUBSET Names : Cardinality(N) <= MaxDocs} }

\* blogs/assets with an empty top directory and two subdirectories that both
\* hold a file "a"; os.walk lists the top first and the two in either order
Files_s1 == (<<"a">> :> "a-of-s1")
Files_s2 == (<<"a">> :> "a-of-s2") @@ (<<"b">> :> "b-of-s2")

Source_s1_s2 == [exists |-> TRUE, walk |-> <<NoFiles, Files_s1, Files_s2>>]
Source_s2_s1 == [exists |-> TRUE, walk |-> <<NoFiles, Files_s2, Files_s1>>]

Sources == {NoSource, Source_s1_s2, Source_s2_s1}

\* docs/blogs/assets left by an earlier build: a stale file in a post folder,
\* a folder of a removed post, a stray file in the root
StaleTree ==
    [exists |-> TRUE,
     dirs   |-> {<<"2", "3", "0", "1", "0", "1">>, <<"o", "l", "d">>},
     files  |-> (<< <<"2", "3", "0", "1", "0", "1">>, <<"z">> >> :> "stale")
                @@ (<< <<"j">> >> :> "stray")]

\* blog.js with an empty list, with the list an earlier build wrote, and
\* without the marker (and with a line end of two characters)
Js_prefix == <<"x", "=", "{">>
Js_suffix == <<",", "y", ":", "[", "0", "]", "}">>
Js_empty_list == Js_prefix \o S_marker \o <<" ", "[", "]">> \o Js_suffix
Js_old_list ==
    Js_prefix
    \o metadata_js(<< [id |-> <<"o">>, date |-> <<"2", "0">>, title |-> <<"O">>,
                      images |-> << <<"p">> >>] >>)
    \o Js_suffix
Js_no_marker == Js_prefix \o <<"\r", "\n", "}">>

Scripts == {None, Js_empty_list, Js_old_list, Js_no_marker}

\* organize_assets reads no script and update_blog_js no asset tree: the
\* asset trees vary with one script, the scripts with one pair of trees
Init ==
    /\ blogs \in Corpora
    /\ \/ /\ source_assets \in Sources
          /\ docs_assets \in {NoTree, StaleTree}
          /\ blog_js = Js_empty_list
       \/ /\ source_assets = Source_s1_s2
          /\ docs_assets = NoTree
          /\ blog_js \in Scripts
    /\ docs_blogs = NoFiles
    /\ posts_metadata = <<>>
    /\ pc = "idle"
    /\ runs = NoRuns
    /\ orig = [docs_assets |-> docs_assets, blog_js |-> blog_js]
    /\ arg = None
    /\ ret = None

Next ==
    \/ process_markdown_files
    \/ organize_assets
    \/ update_blog_js

Spec == Init /\ [][Next]_vars

\* a document is added to, or removed from, the corpus after a build
AddDocument ==
    /\ pc = "published"
    /\ runs.update_blog_js < MaxRuns
    /\ Cardinality(DOMAIN blogs) < MaxDocs
    /\ \E name \in Names \ DOMAIN blogs, content \in Contents :
           blogs' = (name :> content) @@ blogs
    /\ pc' = "idle"
    /\ UNCHANGED <<source_assets, docs_blogs, docs_assets, blog_js,
                   posts_metadata, runs, orig, arg, ret>>

RemoveDocument ==
    /\ pc = "published"
    /\ runs.update_blog_js < MaxRuns
    /\ \E name \in DOMAIN blogs :
           blogs' = [n \in DOMAIN blogs \ {name} |-> blogs[n]]
    /\ pc' = "idle"
    /\ UNCHANGED <<source_assets, docs_blogs, docs_assets, blog_js,
                   posts_metadata, runs, orig, arg, ret>>

InitBuilds ==
    /\ Init
    /\ source_assets = Source_s1_s2
    /\ docs_assets = NoTree
    /\ blog_js = Js_empty_list

NextBuilds ==
    \/ process_markdown_files
    \/ organize_assets
    \/ update_blog_js
    \/ AddDocument
    \/ RemoveDocument

SpecBuilds == InitBuilds /\ [][NextBuilds]_vars

----------------------------------------------------------------------------
(* Properties of the build                                                 *)

\* the document has a title by the title rule / a non-empty one / a date
DocText(name)       == read_text(blogs[name])
HasTitle(name)      == TitleRule(DocText(name)) # None
HasTitleText(name)  == TitleRule(DocText(name)) \notin {None, <<>>}
HasDate(name)       == SixDigits(stem_of(name))

\* the records of posts_metadata made for the document
RecordsOf(name) ==
    {k \in 1..Len(posts_metadata) : posts_metadata[k].id = stem_of(name)}

\* the records are those of documents of the corpus, in descending order of
\* file name
RecordsDescending ==
    /\ \A k \in 1..Len(posts_metadata) :
           \E name \in glob_md(blogs) : RecordsOf(name) = {k}
    /\ \A i, j \in 1..Len(posts_metadata) :
           i < j => \E ni, nj \in glob_md(blogs) :
                        /\ RecordsOf(ni) = {i}
                        /\ RecordsOf(nj) = {j}
                        /\ str_lt(nj, ni)

\* process_markdown_files has returned its list
Returned == pc \in {"processed", "organized", "published"}

\* C1 as amended: the list returned by process_markdown_files holds exactly
\* one record for each document with a non-empty title and a date, none for
\* any other document, in descending order of input file name.
C1_RecordsForTitledDated ==
    Returned =>
        /\ \A name \in glob_md(blogs) :
               Cardinality(RecordsOf(name)) =
                   IF HasTitleText(name) /\ HasDate(name) THEN 1 ELSE 0
        /\ RecordsDescending

\* C1 as stated: exactly one record for each document whose title and date
\* both resolve (neither is absent), none for any other, in descending
\* order of input file name.
C1_RecordsForResolved ==
    Returned =>
        /\ \A name \in glob_md(blogs) :
               Cardinality(RecordsOf(name)) =
                   IF HasTitle(name) /\ HasDate(name) THEN 1 ELSE 0
        /\ RecordsDescending

\* two dated, titled documents were processed: 230101.md sorts above
\* 230101-a.md, and their records come in that order
C1_Witness ==
    /\ pc = "processed"
    /\ DOMAIN blogs = {Name_230101, Name_230101_a}
    /\ Len(posts_metadata) = 2
    /\ posts_metadata[1].id = stem_of(Name_230101)
    /\ posts_metadata[2].id = stem_of(Name_230101_a)

\* some directory of the source tree holds a file of that name
SourceHolds(walk, image) == \E d \in 1..Len(walk) : image \in DOMAIN walk[d]

\* the file of that name that os.walk meets first
FirstHeld(walk, image) ==
    walk[MinOf({d \in 1..Len(walk) : image \in DOMAIN walk[d]})][image]

\* the paths that the records and the source tree call for
CalledFor(posts, walk) ==
    UNION { { <<posts[k].id, posts[k].images[i]>> :
                i \in {n \in 1..Len(posts[k].images) :
                          SourceHolds(walk, posts[k].images[n])} } :
            k \in 1..Len(posts) }

\* the destination tree as a function of the records and the source tree
TreeOf(posts, walk) ==
    [exists |-> TRUE,
     dirs   |-> {posts[k].id : k \in {n \in 1..Len(posts) : posts[n].images # <<>>}},
     files  |-> [p \in CalledFor(posts, walk) |-> FirstHeld(walk, p[2])]]

\* C2: with a source asset tree, the destination tree that organize_assets
\* leaves is determined by the records and the source tree alone: whatever
\* the destination root held before is gone, and a second run in succession
\* leaves the tree of the first.
C2_TreeFromRecordsAndSource ==
    (pc \in {"organized", "published"} /\ source_assets.exists) =>
        docs_assets = TreeOf(posts_metadata, source_assets.walk)

\* organize_assets has run twice in succession on a destination that held
\* stale files, and images were copied
C2_Witness ==
    /\ pc = "organized"
    /\ runs.organize_assets = 2
    /\ source_assets.exists
    /\ orig.docs_assets = StaleTree
    /\ DOMAIN docs_assets.files # {}
    /\ << <<"j">> >> \notin DOMAIN docs_assets.files

\* C4: an image that is not found does not stop the run: every referenced
\* image whose file name exists in the source tree is in its record's
\* folder once organize_assets has returned, also after a missing image of
\* the same record and in later records.
C4_MissingImageSkipped ==
    (pc = "organized" /\ source_assets.exists) =>
        \A k \in 1..Len(posts_metadata) :
            \A i \in 1..Len(posts_metadata[k].images) :
                SourceHolds(source_assets.walk, posts_metadata[k].images[i]) =>
                    <<posts_metadata[k].id, posts_metadata[k].images[i]>>
                        \in DOMAIN docs_assets.files

\* the first record's first image is missing; its second image and the
\* image of the second record were copied all the same
C4_Witness ==
    /\ pc = "organized"
    /\ source_assets.exists
    /\ Len(posts_metadata) = 2
    /\ posts_metadata[1].images = << <<"m">>, <<"a">> >>
    /\ posts_metadata[2].images # <<>>
    /\ <<posts_metadata[1].id, <<"m">>>> \notin DOMAIN docs_assets.files
    /\ <<posts_metadata[1].id, <<"a">>>> \in DOMAIN docs_assets.files
    /\ <<posts_metadata[2].id, posts_metadata[2].images[1]>>
           \in DOMAIN docs_assets.files

\* every embed of the document whose name is a file of the source tree has
\* its file at assets/D/NAME in the destination
EmbedsResolve(name) ==
    \A x \in EmbedRefs(DocText(name)) :
        SourceHolds(source_assets.walk, x[3]) =>
            <<stem_of(name), x[3]>> \in DOMAIN docs_assets.files

\* C9 as amended: after a full build with a source asset tree, the embeds
\* resolve for every corpus document that got a metadata record (non-empty
\* title and a date).
C9_EmbedsOfRecordedResolve ==
    (pc = "published" /\ source_assets.exists) =>
        \A name \in glob_md(blogs) :
            (HasTitleText(name) /\ HasDate(name)) => EmbedsResolve(name)

\* C9 as stated: after a full build with a source asset tree, the embeds
\* resolve for every corpus document.
C9_EmbedsOfAllResolve ==
    (pc = "published" /\ source_assets.exists) =>
        \A name \in glob_md(blogs) : EmbedsResolve(name)

\* a full build rewrote the embed of 230101-a.md to assets/230101-a/a and
\* put the file there
C9_Witness ==
    /\ pc = "published"
    /\ source_assets.exists
    /\ Name_230101_a \in DOMAIN blogs
    /\ blogs[Name_230101_a] = Doc_heading
    /\ docs_blogs[Name_230101_a] =
           <<"#", " ", "T", "\n", "!", "[", "]", "(", "a", "s", "s",
             "e", "t", "s", "/", "2", "3", "0", "1", "0", "1", "-",
             "a", "/", "a", ")">>
    /\ <<stem_of(Name_230101_a), <<"a">>>> \in DOMAIN docs_assets.files

\* C10 as amended: after each build of a sequence of builds, the output
\* directory holds the rewritten file of every current corpus document
\* under the same file name; the file of a document that is no longer in
\* the corpus may remain.
C10_CurrentDocumentsRewritten ==
    pc = "published" =>
        \A name \in glob_md(blogs) :
            /\ name \in DOMAIN docs_blogs
            /\ docs_blogs[name] = convert_obsidian_images(DocText(name), stem_of(name))

\* C10 as stated: after each build the output directory holds a file for
\* every current corpus document and none for any other.
C10_OutputMirrorsCorpus ==
    pc = "published" => DOMAIN docs_blogs = glob_md(blogs)

\* a second build has ended after a document was removed: the documents
\* left are rewritten, and the removed one's file is still there
C10_Witness ==
    /\ pc = "published"
    /\ runs.update_blog_js = 2
    /\ DOMAIN blogs # {}
    /\ DOMAIN docs_blogs \ DOMAIN blogs # {}

\* where the marker first stands in the text, 0 when it does not
MarkerAt(text) ==
    LET I == {i \in 1..Len(text) : StartsWithAt(text, i, S_marker)}
    IN  IF I = {} THEN 0 ELSE MinOf(I)

\* the bracket that closes the list opened before index i at that depth
RECURSIVE ClosingBracket(_, _, _)
ClosingBracket(text, i, depth) ==
    IF i > Len(text) THEN 0
    ELSE IF text[i] = "[" THEN ClosingBracket(text, i + 1, depth + 1)
    ELSE IF text[i] # "]" THEN ClosingBracket(text, i + 1, depth)
    ELSE IF depth = 1 THEN i
    ELSE ClosingBracket(text, i + 1, depth - 1)

\* the original text before the marker, and after the bracket that closes
\* the original metadata list
OrigBefore == SubSeq(orig.blog_js, 1, MarkerAt(orig.blog_js) - 1)
OrigAfter ==
    LET open == SkipIn(orig.blog_js, MarkerAt(orig.blog_js) + Len(S_marker), Whitespace)
    IN  SubSeq(orig.blog_js, ClosingBracket(orig.blog_js, open + 1, 1) + 1,
               Len(orig.blog_js))

\* C8: after one or more runs of update_blog_js on a script that holds the
\* marker, the script is the original text before the marker, one metadata
\* literal of the latest records, and the original text after the closing
\* bracket of the original list: nothing of an earlier literal is left.
C8_OneLiteralBetweenOriginalText ==
    (/\ pc = "published"
     /\ orig.blog_js # None
     /\ MarkerAt(orig.blog_js) # 0) =>
        blog_js = OrigBefore \o metadata_js(posts_metadata) \o OrigAfter

====
